---- MODULE Spec2Model ----
(***************************************************************************)
(* Galvo / PicoScope imaging scan of "Master program v1".                  *)
(*                                                                         *)
(* The model follows imaging_tab_v3.py, the ImagingTab that main.py loads: *)
(* the GUI thread (Start, Stop, the finished signal of the sweep worker,   *)
(* the one-second single-shot timer), the GalvoWorker QThread, the         *)
(* scope_thread poll loop with the digitizer's streaming callback, and the *)
(* pixel extraction of _on_stop followed by render_picture.  The drivers   *)
(* the tab works with are modelled by what their functions compute: the    *)
(* position-frame encoders moveXY (18-bit in drivers/Galvo_D2XX.py and     *)
(* drivers/GALVO.py, 16-bit in Galvo_driver.py), the frame senders of the  *)
(* two GALVO classes, and start_stream / stop_stream of the Picoscope      *)
(* driver.                                                                 *)
(*                                                                         *)
(* Python indices are 0-based and TLA+ sequences 1-based: the Python       *)
(* element s[i] is s[i + 1] here.  Loop indices keep their Python values.  *)
(***************************************************************************)
EXTENDS Integers, Sequences, FiniteSets, TLC

\* ------------------------------------------------------------------ bounds
\* Scans that may be started in one run of the program.
MaxScans == 2
\* Streaming callbacks that deliver a block, over one run of the program.
MaxBlocks == 2
\* Runs of equal digital samples in a stream handed to the extractor.
MaxRuns == 3
\* Largest number of points per axis that the user enters.
MaxPoints == 2
\* Coordinates handed to the galvo drivers are the multiples of 1/Grain from
\* -MaxStep/Grain to MaxStep/Grain (and nan, inf, -inf).
Grain == 2
MaxStep == 3

\* ------------------------------------------------------- program constants
\* "i += 50" of the extraction loop: samples skipped after a trigger sample.
SampleOffset == 50
\* "int(x * 131071) + 131072" of the 18-bit moveXY, "int(x * 32767) + 32768"
\* of the 16-bit one.
Scale18 == 131071
Mid18 == 131072
Scale16 == 32767
Mid16 == 32768
\* "if len(frame_data) != 40" of the frame senders.
FrameLen == 40
\* "64 - len(frame_data)": the padded write of the pyftdi driver's fallback.
PadLen == 64

\* ------------------------------------------------------------------ inputs
\* Values of the digital port word seen by the model: trigger bit D0 clear
\* (0), D0 alone (1), D0 together with D1 (3).
Levels == {0, 1, 3}
\* Lengths of a run of equal samples: one sample, a run as long as the
\* extractor's skip, and a run longer than the skip plus the sample itself.
RunLens == {1, SampleOffset, SampleOffset + 2}

\* n samples of the same port word.
Run(level, n) == [p \in 1..n |-> level]
\* Runs that make up the streams handed to the extractor.
Runs == {Run(l, n) : l \in Levels, n \in RunLens}
\* The digital part of the blocks the digitizer delivers while a scan runs:
\* one trigger sample, or 50 samples with the trigger low.
Blocks == {Run(1, 1), Run(0, SampleOffset)}

\* The analog channel records a ramp: the sample at (1-based) position p has
\* the value p, so a pixel value names the sample it was read from.
Ramp(from, n) == [p \in 1..n |-> from + p]

\* Point counts accepted by _validate_inputs (nx >= 1 and ny >= 1).
Points == 1..MaxPoints

Scans == 1..MaxScans

\* ------------------------------------------------------------------- state
VARIABLES
    start_enabled,   \* start_btn.isEnabled()
    stop_enabled,    \* stop_btn.isEnabled()
    image_data,      \* <<>> for None, else the shape <<ny, nx>> of the buffer
    canvas,          \* <<>> before any draw, else [shape, cells] last drawn
    warning,         \* the count-mismatch message of the last render_picture
    found,           \* the count last printed as "Found triggers"
    adc_values,      \* accumulated analog samples
    digital_values,  \* accumulated digital port words
    stop_event,      \* threading.Event shared with scope_thread
    streaming,       \* the digitizer is streaming (RunStreaming .. Stop)
    galvo_worker,    \* self.galvo_worker: 0 for None, else the scan it serves
    nscans,          \* scans started so far
    galvo_pc,        \* per scan: GalvoWorker "none" | "run" | "done"
    galvo_idx,       \* per scan: galvo.move calls made by its worker
    galvo_total,     \* per scan: len(y_vals) * len(x_vals)
    galvo_stop,      \* per scan: GalvoWorker._stop
    send_failed,     \* per scan: a galvo.move call of its worker has raised
                     \*           or has returned False
    scope_pc,        \* per scan: scope_thread "none" | "check" | "poll" |
                     \*           "cb" | "stopping" | "done"
    scope_blk,       \* per scan: digital block the callback has yet to append
    nblocks,         \* blocks delivered so far
    overflow_warned, \* the overflow message has been printed
    done_queue,      \* finished signals queued for the GUI thread
    timers,          \* pending QTimer.singleShot(1000, _on_stop)
    gui_pc,          \* GUI thread: "idle" | "on_stop" | "raised"
    error,           \* "none", or the exception that left a slot unhandled
                     \* (no excepthook is installed, so PyQt6 then aborts the
                     \* program: every action needs error = "none")
    \* ---- the drivers, called on their own
    call,            \* the last driver call: [op, x, y, dev]
    ret,             \* what it returned: [raised, value]
    ops,             \* the operations it issued on the FTDI device, in
                     \* order: "purge" or "write"
    wire,            \* the writes it made on the FTDI device, in order, each
                     \* [data, accepted]
    kept,            \* << >>, or a remembered moveXY call: [call, ret, age],
                     \* age the number of moveXY calls made since (2: two
                     \* or more)
    has_stop_event,  \* hasattr(Picoscope, '_stop_event')
    pico_stop_event, \* Picoscope._stop_event.is_set()
    pico_analog,     \* Picoscope._analog
    pico_digital,    \* Picoscope._digital
    pico_done,       \* Picoscope._done
    pico_in,         \* samples the device has handed to _streaming_callback
    pico_out,        \* analog samples get_latest_values has returned, in
                     \* order
    \* ---- a sweep worker, run on its own
    sweep_kind,      \* "none" | "GalvoWorker" | "_ScanWorker"
    sweep_serp,      \* _ScanWorker._serpentine
    sweep_shape,     \* << len(ys), len(xs) >>
    sweep_pc,        \* "none" | "row" (at the test of the row loop) |
                     \* "point" (at the test of the point loop) | "move" |
                     \* "read" | "done"
    sweep_iy,        \* index of the row
    sweep_k,         \* index within the row, in the order of the sweep
    sweep_stop,      \* the worker's _stop
    sweep_moves,     \* the galvo.move calls made, in order, each << index of
                     \* x in xs, index of y in ys >>
    sweep_late,      \* galvo.move calls made after stop() was called
    sweep_reports,   \* progress signals, in order: << ix, iy, val >>, val
                     \* naming the point the value was read at
    sweep_finished,  \* finished signals, in order
    \* ---- the streaming tab (imaging_tab.py), its pixel store on its own
    edge_image,      \* image_data: << >> for None, else its shape << ny, nx >>
    edge_cells,      \* the cells of the buffer last allocated, row-major
    edge_prev_d,     \* _prev_d
    edge_row,        \* cur_row
    edge_col,        \* cur_col
    edge_points,     \* points
    edge_stream,     \* the digital words handed to _consume_scope_data since
                     \* the buffer was allocated, while it was allocated
    edge_blocks,     \* blocks handed over since the buffer was allocated
    edge_scans,      \* buffers allocated so far
    \* ---- PumpProbeOverlapTab, its phases on their own
    pp_phase,        \* self.phase: 0 IDLE, 1 PUMP, 2 PROBE
    pp_start_enabled,\* start_btn.isEnabled(); stop_btn is its opposite
    pp_stop_event,   \* self.stop_event.is_set()
    pp_streaming,    \* the digitizer is streaming
    pp_worker,       \* self.worker: 0 for None, else the number of the worker
    pp_nworkers,     \* workers created so far, numbered from 1
    pp_run,          \* the workers whose run() has not ended
    pp_wstop,        \* the workers whose _stop is set
    pp_queue,        \* finished signals queued for the GUI thread, by worker
    pp_scans,        \* scans started so far
    pp_pump,         \* 0, or the worker whose signal stored pump_image
    pp_probe,        \* 0, or the worker whose signal stored probe_image
    pp_error         \* an exception has left a slot unhandled

vars == << start_enabled, stop_enabled, image_data, canvas, warning, found,
           adc_values, digital_values, stop_event, streaming, galvo_worker,
           nscans, galvo_pc, galvo_idx, galvo_total, galvo_stop, send_failed,
           scope_pc, scope_blk, nblocks, overflow_warned, done_queue, timers,
           gui_pc, error, call, ret, ops, wire, kept, has_stop_event,
           pico_stop_event, pico_analog, pico_digital, pico_done, pico_in,
           pico_out, sweep_kind, sweep_serp, sweep_shape, sweep_pc, sweep_iy,
           sweep_k, sweep_stop, sweep_moves, sweep_late, sweep_reports,
           sweep_finished, edge_image, edge_cells, edge_prev_d, edge_row,
           edge_col, edge_points, edge_stream, edge_blocks, edge_scans,
           pp_phase, pp_start_enabled, pp_stop_event, pp_streaming, pp_worker,
           pp_nworkers, pp_run, pp_wstop, pp_queue, pp_scans, pp_pump,
           pp_probe, pp_error >>

gui_vars    == << start_enabled, stop_enabled, image_data, canvas, warning, found,
                  galvo_worker, gui_pc, error >>
galvo_vars  == << galvo_pc, galvo_idx, galvo_total, galvo_stop, send_failed >>
scope_vars  == << scope_pc, scope_blk >>
stream_vars == << adc_values, digital_values, nblocks, overflow_warned >>
sweep_vars  == << sweep_kind, sweep_serp, sweep_shape, sweep_pc, sweep_iy,
                  sweep_k, sweep_stop, sweep_moves, sweep_late, sweep_reports,
                  sweep_finished >>
imaging_vars == << gui_vars, galvo_vars, scope_vars, stream_vars, stop_event,
                   streaming, nscans, done_queue, timers >>
edge_vars   == << edge_image, edge_cells, edge_prev_d, edge_row, edge_col,
                  edge_points, edge_stream, edge_blocks, edge_scans >>
pp_vars     == << pp_phase, pp_start_enabled, pp_stop_event, pp_streaming,
                  pp_worker, pp_nworkers, pp_run, pp_wstop, pp_queue, pp_scans,
                  pp_pump, pp_probe, pp_error >>
tab_vars    == << imaging_vars, sweep_vars, edge_vars, pp_vars >>
galvo_driver_vars == << call, ret, ops, wire, kept >>
pico_vars   == << has_stop_event, pico_stop_event, pico_analog, pico_digital,
                  pico_done, pico_in, pico_out >>
driver_vars == << galvo_driver_vars, pico_vars, sweep_vars, edge_vars,
                  pp_vars >>

\* ------------------------------------------------------- pixel extraction
\* The first Python index >= i whose port word equals 1, or -1: the samples
\* that the loop of _on_stop passes with "i += 1" alone.
NextOne(dig, i) ==
    LET hits == {p \in i..(Len(dig) - 1) : dig[p + 1] = 1}
    IN  IF hits = {} THEN -1
        ELSE CHOOSE p \in hits : \A q \in hits : p <= q

\* The while loop of _on_stop, from Python index i with vals collected so
\* far: a sample equal to 1 advances i by 50 and reads adc_values[i], then
\* "i += 1"; the read raises IndexError when i is past the end of
\* adc_values.  The loop ends when i reaches len(digital_values).
RECURSIVE ExtractLoop(_, _, _, _)
ExtractLoop(dig, adc, i, vals) ==
    LET h == NextOne(dig, i) IN
    IF h = -1 THEN [raised |-> FALSE, vals |-> vals]
    ELSE LET j == h + SampleOffset IN
         IF j < Len(adc)
         THEN ExtractLoop(dig, adc, j + 1, Append(vals, adc[j + 1]))
         ELSE [raised |-> TRUE, vals |-> vals]

Zeros(n) == [p \in 1..n |-> 0]

\* render_picture as it would be without its padding branch.
RenderPictureNoPad(vals, shape) ==
    LET expected == shape[1] * shape[2]
        fitted   == IF Len(vals) > expected THEN SubSeq(vals, 1, expected)
                    ELSE vals
    IN  [grid |-> [shape |-> shape, cells |-> fitted],
         warning |-> IF Len(vals) < expected THEN "padding"
                     ELSE IF Len(vals) > expected THEN "truncating" ELSE "none"]

\* render_picture as it would be if it kept the last values, not the first.
RenderPictureKeepLast(vals, shape) ==
    LET expected == shape[1] * shape[2]
        actual   == Len(vals)
        fitted   == IF actual < expected THEN vals \o Zeros(expected - actual)
                    ELSE SubSeq(vals, actual - expected + 1, actual)
    IN  [grid |-> [shape |-> shape, cells |-> fitted],
         warning |-> IF actual < expected THEN "padding"
                     ELSE IF actual > expected THEN "truncating" ELSE "none"]

\* render_picture with a buffer of shape <<ny, nx>>: pad with zeros or
\* truncate to ny * nx values, print the mismatch, reshape row-major.
RenderPicture(vals, shape) ==
    LET expected == shape[1] * shape[2]
        actual   == Len(vals)
        fitted   == IF actual < expected THEN vals \o Zeros(expected - actual)
                    ELSE IF actual > expected THEN SubSeq(vals, 1, expected)
                    ELSE vals
        message  == IF actual < expected THEN "padding"
                    ELSE IF actual > expected THEN "truncating"
                    ELSE "none"
    IN  [grid |-> [shape |-> shape, cells |-> fitted], warning |-> message]

\* ========================================================== galvo drivers
\* A Python float: a finite one is n / Grain (such a value times 131071 is
\* computed without rounding error larger than the distance of the product
\* to the next integer, so int() of it is the truncation of the exact
\* product), or nan, or an infinity with the sign n.
Fin(n) == [kind |-> "fin", n |-> n]
NaN == [kind |-> "nan", n |-> 0]
Inf(sign) == [kind |-> "inf", n |-> sign]
One == Fin(Grain)
MinusOne == Fin(-Grain)

\* Arguments of the calls made on the encoders.
Finite == {Fin(n) : n \in (-MaxStep)..MaxStep}
Coords == Finite \cup {NaN, Inf(1), Inf(-1)}
\* Arguments of the calls made on the senders: the ends and the middle of
\* the range, and the values that are no numbers.
Corners == {MinusOne, Fin(0), One}
Targets == Corners \cup {NaN, Inf(1), Inf(-1)}

\* a < b on Python floats: every comparison with nan is False.
Lt(a, b) ==
    IF a.kind = "nan" \/ b.kind = "nan" THEN FALSE
    ELSE IF a.kind = "inf" THEN a.n < 0 /\ ~(b.kind = "inf" /\ b.n < 0)
    ELSE IF b.kind = "inf" THEN b.n > 0
    ELSE a.n < b.n

\* The builtins min(a, b) and max(a, b): the second argument replaces the
\* first only when it compares smaller (larger).
PyMin(a, b) == IF Lt(b, a) THEN b ELSE a
PyMax(a, b) == IF Lt(a, b) THEN b ELSE a

\* Clamp as Clamp would be without its upper limit.
ClampNoUpper(x) == PyMax(x, MinusOne)

\* "max(min(x, 1.0), -1.0)".
Clamp(x) == PyMax(PyMin(x, One), MinusOne)

\* int() of the quotient num / den: truncation toward zero.
Trunc(num, den) == IF num >= 0 THEN num \div den ELSE -((-num) \div den)

\* ToCode with the offset one below mid-scale.
ToCodeLow(c, scale, mid) ==
    IF c.kind = "nan" THEN [raised |-> "ValueError", value |-> 0]
    ELSE IF c.kind = "inf" THEN [raised |-> "OverflowError", value |-> 0]
    ELSE [raised |-> "none", value |-> Trunc(c.n * scale, Grain) + mid - 1]

\* "int(x * scale) + mid": int() raises ValueError on nan and OverflowError
\* on an infinity.
ToCode(c, scale, mid) ==
    IF c.kind = "nan" THEN [raised |-> "ValueError", value |-> 0]
    ELSE IF c.kind = "inf" THEN [raised |-> "OverflowError", value |-> 0]
    ELSE [raised |-> "none", value |-> Trunc(c.n * scale, Grain) + mid]

\* The binary digits of v >= 0, most significant first.
RECURSIVE BinDigits(_)
BinDigits(v) == IF v < 2 THEN << v >> ELSE Append(BinDigits(v \div 2), v % 2)

\* f"{v:018b}", format(v, '016b'): at least w digits, zeros on the left.
Format(v, w) ==
    LET d == BinDigits(v) IN
    IF Len(d) >= w THEN d ELSE Zeros(w - Len(d)) \o d

\* The loop "for i in range(nbits)": for each bit two pin states, clock high
\* then clock low, with y on D0, x on D1 and D4 set.
BitBytes(xbits, ybits, nbits) ==
    [p \in 1..(2 * nbits) |->
        LET i    == (p + 1) \div 2
            data == ybits[i] + 2 * xbits[i] + 16
        IN  IF p % 2 = 1 THEN data + 8 ELSE data]

\* The pin states before the bits: two in the 18-bit frame, six in the
\* 16-bit frame; the two after the bits.
Preamble18 == << 31, 23 >>
Preamble16 == << 28, 20, 24, 16, 27, 19 >>
\* Postamble with a third pin state.
PostambleLong == << 8, 0, 0 >>
Postamble == << 8, 0 >>

\* What a call returns: raised is "none" and value the returned object, or
\* raised names the exception.
Returned(v) == [raised |-> "none", value |-> v]
Raised(e) == [raised |-> e, value |-> << >>]

\* moveXY18 as it would be if x were taken from the call before.
moveXY18Sticky(x, y) ==
    LET cx == ToCode(Clamp(IF call.op = "none" THEN x ELSE call.x),
                     Scale18, Mid18)
        cy == ToCode(Clamp(y), Scale18, Mid18)
    IN  IF cx.raised # "none" THEN Raised(cx.raised)
        ELSE IF cy.raised # "none" THEN Raised(cy.raised)
        ELSE Returned(Preamble18
                      \o BitBytes(Format(cx.value, 18), Format(cy.value, 18), 18)
                      \o Postamble)

\* Galvo_D2XX.moveXY (drivers/GALVO.py has the same function).
moveXY18(x, y) ==
    LET cx == ToCode(Clamp(x), Scale18, Mid18)
        cy == ToCode(Clamp(y), Scale18, Mid18)
    IN  IF cx.raised # "none" THEN Raised(cx.raised)
        ELSE IF cy.raised # "none" THEN Raised(cy.raised)
        ELSE Returned(Preamble18
                      \o BitBytes(Format(cx.value, 18), Format(cy.value, 18), 18)
                      \o Postamble)

\* Galvo_driver.moveXY.
moveXY16(x, y) ==
    LET cx == ToCode(Clamp(x), Scale16, Mid16)
        cy == ToCode(Clamp(y), Scale16, Mid16)
    IN  IF cx.raised # "none" THEN Raised(cx.raised)
        ELSE IF cy.raised # "none" THEN Raised(cy.raised)
        ELSE Returned(Preamble16
                      \o BitBytes(Format(cx.value, 16), Format(cy.value, 16), 16)
                      \o Postamble)

\* ---- the FTDI device as the senders see it
\* What one write call on the device does: it accepts n bytes and returns,
\* or it raises after n bytes were accepted.
Outcome(raises, n) == [raises |-> raises, n |-> n]
NoOutcome == Outcome(FALSE, 0)
\* ftd2xx write: the handle is closed (raises), or 0, 39 or 40 bytes go out
\* before the write timeout.
D2xxWrites == {Outcome(TRUE, 0)}
              \cup {Outcome(FALSE, n) : n \in {0, FrameLen - 1, FrameLen}}
\* GpioSyncController.exchange: returns after the frame went out, or raises
\* with nothing, a part or all of the frame accepted.
Exchanges == {Outcome(FALSE, FrameLen)}
             \cup {Outcome(TRUE, n) : n \in {0, FrameLen - 1, FrameLen}}
\* Ftdi.write_data of the padded frame: raises, or returns its byte count.
PaddedWrites == {Outcome(TRUE, 0)}
                \cup {Outcome(FALSE, n) : n \in {FrameLen - 1, FrameLen, PadLen}}

\* Result of a sender: what it returns or raises, the operations it issued
\* on the device in order, and its writes in order.
Sent(r, o, w) == [raised |-> r.raised, value |-> r.value, ops |-> o, wire |-> w]

\* One write: the bytes handed over and the count the device accepted.
Write(data, o) == [data |-> data, accepted |-> o.n]

\* Galvo_D2XX.GALVO.send_frame_atomic: length check, purge, one dev.write,
\* "return written == 40".
SendFrameAtomic(frame, dev) ==
    IF Len(frame) # FrameLen THEN Sent(Raised("ValueError"), << >>, << >>)
    ELSE IF dev.write.raises
         THEN Sent(Raised("DeviceError"), << "purge", "write" >>, << >>)
    ELSE Sent(Returned(dev.write.n = FrameLen), << "purge", "write" >>,
              << Write(frame, dev.write) >>)

\* Galvo_D2XX.GALVO.send_frame_with_verification: length check, purge, the
\* send, a printed warning when it took long.
SendFrameWithVerification(frame, dev) ==
    IF Len(frame) # FrameLen THEN Sent(Raised("ValueError"), << >>, << >>)
    ELSE LET r == SendFrameAtomic(frame, dev)
         IN  [r EXCEPT !.ops = << "purge" >> \o @]

\* Galvo_D2XX.GALVO.move: the frame of moveXY is sent; an exception of
\* moveXY leaves before anything is sent.
Move(x, y, dev) ==
    LET f == moveXY18(x, y) IN
    IF f.raised # "none" THEN Sent(Raised(f.raised), << >>, << >>)
    ELSE SendFrameWithVerification(f.value, dev)

\* drivers/GALVO.py, GALVO.send_frame_atomic (pyftdi): exchange, then
\* purge_buffers, and True when exchange returns; when it raises, write_data
\* of the frame padded to 64 bytes, True when at least 40 bytes were written,
\* False when fewer were or when write_data raised.
PyftdiSendFrameAtomic(frame, dev) ==
    IF Len(frame) # FrameLen THEN Sent(Raised("ValueError"), << >>, << >>)
    ELSE IF ~dev.write.raises
         THEN Sent(Returned(TRUE), << "write", "purge" >>,
                   << Write(frame, dev.write) >>)
    ELSE LET first  == IF dev.write.n = 0 THEN << >>
                       ELSE << Write(frame, dev.write) >>
             padded == frame \o Zeros(PadLen - Len(frame))
         IN  IF dev.retry.raises
             THEN Sent(Returned(FALSE), << "write", "write" >>, first)
             ELSE Sent(Returned(dev.retry.n >= FrameLen), << "write", "write" >>,
                       Append(first, Write(padded, dev.retry)))

\* drivers/GALVO.py, GALVO.send_frame_with_verification: length check,
\* purge_buffers, the send, a printed warning when it took long.
PyftdiSendFrameWithVerification(frame, dev) ==
    IF Len(frame) # FrameLen THEN Sent(Raised("ValueError"), << >>, << >>)
    ELSE LET r == PyftdiSendFrameAtomic(frame, dev)
         IN  [r EXCEPT !.ops = << "purge" >> \o @]

\* drivers/GALVO.py, GALVO.move: the frame of moveXY is sent, and True is
\* returned when the sender returned True, else False.
PyftdiMove(x, y, dev) ==
    LET f == moveXY18(x, y) IN
    IF f.raised # "none" THEN Sent(Raised(f.raised), << >>, << >>)
    ELSE PyftdiSendFrameWithVerification(f.value, dev)

\* The record of a call: the function, its coordinates and what the device
\* does on the first write and on a second one.
Called(op, x, y, dev) == [op |-> op, x |-> x, y |-> y, dev |-> dev]
NoDev == [write |-> NoOutcome, retry |-> NoOutcome]

\* No driver call made yet; a call that returned None.
NoCall == Called("none", Fin(0), Fin(0), NoDev)
NoRet == Returned(<< >>)

\* The acquisition phases of PumpProbeOverlapTab.
PHASE_IDLE == 0
PHASE_PUMP == 1
PHASE_PROBE == 2

\* -------------------------------------------------------------------- Init
\* The drivers after InstrumentManager has constructed them: no call made,
\* and Picoscope.__init__ sets neither _stop_event nor _poll_thread.
DriversInit ==
    /\ call = NoCall
    /\ ret = NoRet
    /\ ops = << >>
    /\ wire = << >>
    /\ kept = << >>
    /\ has_stop_event = FALSE
    /\ pico_stop_event = FALSE
    /\ pico_analog = << >>
    /\ pico_digital = << >>
    /\ pico_done = FALSE
    /\ pico_in = 0
    /\ pico_out = << >>
    /\ sweep_kind = "none"
    /\ sweep_serp = FALSE
    /\ sweep_shape = << 0, 0 >>
    /\ sweep_pc = "none"
    /\ sweep_iy = 0
    /\ sweep_k = 0
    /\ sweep_stop = FALSE
    /\ sweep_moves = << >>
    /\ sweep_late = 0
    /\ sweep_reports = << >>
    /\ sweep_finished = << >>
    /\ edge_image = << >>
    /\ edge_cells = << >>
    /\ edge_prev_d = 0
    /\ edge_row = 0
    /\ edge_col = 0
    /\ edge_points = 0
    /\ edge_stream = << >>
    /\ edge_blocks = 0
    /\ edge_scans = 0
    /\ pp_phase = PHASE_IDLE
    /\ pp_start_enabled = TRUE
    /\ pp_stop_event = FALSE
    /\ pp_streaming = FALSE
    /\ pp_worker = 0
    /\ pp_nworkers = 0
    /\ pp_run = {}
    /\ pp_wstop = {}
    /\ pp_queue = << >>
    /\ pp_scans = 0
    /\ pp_pump = 0
    /\ pp_probe = 0
    /\ pp_error = FALSE

Init ==
    /\ start_enabled = TRUE
    /\ stop_enabled = FALSE
    /\ image_data = << >>
    /\ canvas = << >>
    /\ warning = "none"
    /\ found = 0
    /\ adc_values = << >>
    /\ digital_values = << >>
    /\ stop_event = FALSE
    /\ streaming = FALSE
    /\ galvo_worker = 0
    /\ nscans = 0
    /\ galvo_pc = [s \in Scans |-> "none"]
    /\ galvo_idx = [s \in Scans |-> 0]
    /\ galvo_total = [s \in Scans |-> 0]
    /\ galvo_stop = [s \in Scans |-> FALSE]
    /\ send_failed = [s \in Scans |-> FALSE]
    /\ scope_pc = [s \in Scans |-> "none"]
    /\ scope_blk = [s \in Scans |-> << >>]
    /\ nblocks = 0
    /\ overflow_warned = FALSE
    /\ done_queue = 0
    /\ timers = 0
    /\ gui_pc = "idle"
    /\ error = "none"
    /\ DriversInit

\* ------------------------------------------------------------- GUI thread
\* _on_start (Start clicked; the button is clickable only while enabled)
\* with valid point counts ny, nx.  pico_ok is the outcome of the
\* assert_pico_ok calls: a bad status raises after the buttons are switched
\* and before any thread is started.
OnStart(ny, nx, pico_ok) ==
    /\ gui_pc = "idle"
    /\ error = "none"
    /\ UNCHANGED driver_vars
    /\ start_enabled
    /\ nscans < MaxScans
    /\ LET s == nscans + 1 IN
       /\ nscans' = s
       /\ image_data' = << ny, nx >>
       /\ adc_values' = << >>
       /\ digital_values' = << >>
       /\ stop_event' = FALSE
       /\ galvo_worker' = s
       /\ galvo_total' = [galvo_total EXCEPT ![s] = ny * nx]
       /\ galvo_idx' = [galvo_idx EXCEPT ![s] = 0]
       /\ galvo_stop' = [galvo_stop EXCEPT ![s] = FALSE]
       /\ send_failed' = [send_failed EXCEPT ![s] = FALSE]
       /\ start_enabled' = FALSE
       /\ stop_enabled' = TRUE
       /\ IF pico_ok
          THEN /\ streaming' = TRUE
               /\ scope_pc' = [scope_pc EXCEPT ![s] = "check"]
               /\ galvo_pc' = [galvo_pc EXCEPT ![s] = "run"]
               /\ UNCHANGED << gui_pc, error >>
          ELSE /\ error' = "PicoError"
               /\ gui_pc' = "raised"
               /\ UNCHANGED << streaming, scope_pc, galvo_pc >>
    /\ UNCHANGED << canvas, warning, found, scope_blk, nblocks,
                    overflow_warned, done_queue, timers >>

\* The first statement of _on_stop: stop_event.set().  The slot then runs
\* its extraction loop while the other threads go on.
OnStopEnter ==
    /\ stop_event' = TRUE
    /\ gui_pc' = "on_stop"

\* Stop clicked (clickable only while enabled).
OnStopClick ==
    /\ gui_pc = "idle"
    /\ error = "none"
    /\ UNCHANGED driver_vars
    /\ stop_enabled
    /\ OnStopEnter
    /\ UNCHANGED << start_enabled, stop_enabled, image_data, canvas, warning,
                    found, galvo_worker, error, streaming, nscans,
                    done_queue, timers >>
    /\ UNCHANGED << galvo_vars, scope_vars, stream_vars >>

\* _on_galvo_done: the queued finished signal arms the single-shot timer.
OnGalvoDone ==
    /\ gui_pc = "idle"
    /\ error = "none"
    /\ UNCHANGED driver_vars
    /\ done_queue > 0
    /\ done_queue' = done_queue - 1
    /\ timers' = timers + 1
    /\ UNCHANGED << gui_vars, stop_event, streaming, nscans >>
    /\ UNCHANGED << galvo_vars, scope_vars, stream_vars >>

\* The single-shot timer calls _on_stop.
OnStopTimer ==
    /\ gui_pc = "idle"
    /\ error = "none"
    /\ UNCHANGED driver_vars
    /\ timers > 0
    /\ timers' = timers - 1
    /\ OnStopEnter
    /\ UNCHANGED << start_enabled, stop_enabled, image_data, canvas, warning,
                    found, galvo_worker, error, streaming, nscans,
                    done_queue >>
    /\ UNCHANGED << galvo_vars, scope_vars, stream_vars >>

\* The rest of _on_stop: the extraction loop over the lists as they are,
\* then render_picture and _finalize_scan.  An IndexError leaves the slot
\* before render_picture and _finalize_scan.
OnStopBody ==
    /\ gui_pc = "on_stop"
    /\ error = "none"
    /\ UNCHANGED driver_vars
    /\ LET r == ExtractLoop(digital_values, adc_values, 0, << >>) IN
       IF r.raised
       THEN /\ error' = "IndexError"
            /\ gui_pc' = "raised"
            /\ UNCHANGED << start_enabled, stop_enabled, image_data, canvas,
                            warning, found, galvo_worker >>
       ELSE /\ found' = Len(r.vals)
            /\ IF image_data = << >>
               THEN /\ warning' = "no buffer"
                    /\ UNCHANGED canvas
               ELSE LET pic == RenderPicture(r.vals, image_data) IN
                    /\ canvas' = pic.grid
                    /\ warning' = pic.warning
            /\ start_enabled' = TRUE
            /\ stop_enabled' = FALSE
            /\ galvo_worker' = 0
            /\ image_data' = << >>
            /\ gui_pc' = "idle"
            /\ UNCHANGED error
    /\ UNCHANGED << stop_event, streaming, nscans, done_queue, timers >>
    /\ UNCHANGED << galvo_vars, scope_vars, stream_vars >>

\* ------------------------------------------------------------ GalvoWorker
\* One pass of the inner loop of GalvoWorker.run: _stop is clear, a grid
\* point is left, galvo.move is called.  sent is what the call does: it
\* returns True, returns False (short write) or raises.  The exception is
\* caught and printed, the returned value is dropped, and the loop goes on
\* to msleep and to the next point.
GalvoMove(s, sent) ==
    /\ error = "none"
    /\ UNCHANGED driver_vars
    /\ galvo_pc[s] = "run"
    /\ ~galvo_stop[s]
    /\ galvo_idx[s] < galvo_total[s]
    /\ galvo_idx' = [galvo_idx EXCEPT ![s] = @ + 1]
    /\ send_failed' = [send_failed EXCEPT ![s] = @ \/ sent # "True"]
    /\ UNCHANGED << galvo_pc, galvo_total, galvo_stop >>
    /\ UNCHANGED << gui_vars, stop_event, streaming, nscans, done_queue, timers >>
    /\ UNCHANGED << scope_vars, stream_vars >>

\* The loops of GalvoWorker.run are left and finished is emitted; the slot
\* lives in the GUI thread, so the signal is queued.
GalvoFinish(s) ==
    /\ error = "none"
    /\ UNCHANGED driver_vars
    /\ galvo_pc[s] = "run"
    /\ galvo_stop[s] \/ galvo_idx[s] = galvo_total[s]
    /\ galvo_pc' = [galvo_pc EXCEPT ![s] = "done"]
    /\ done_queue' = done_queue + 1
    /\ UNCHANGED << galvo_idx, galvo_total, galvo_stop, send_failed >>
    /\ UNCHANGED << gui_vars, stop_event, streaming, nscans, timers >>
    /\ UNCHANGED << scope_vars, stream_vars >>

\* ----------------------------------------------------------- scope_thread
\* "while not self.stop_event.is_set()".
ScopeCheck(s) ==
    /\ error = "none"
    /\ UNCHANGED driver_vars
    /\ scope_pc[s] = "check"
    /\ scope_pc' = [scope_pc EXCEPT ![s] = IF stop_event THEN "stopping"
                                           ELSE "poll"]
    /\ UNCHANGED << scope_blk, stop_event, streaming, nscans, done_queue, timers >>
    /\ UNCHANGED << gui_vars, galvo_vars, stream_vars >>

\* ps5000aGetStreamingLatestValues with no new samples: no callback.
ScopePollEmpty(s) ==
    /\ error = "none"
    /\ UNCHANGED driver_vars
    /\ scope_pc[s] = "poll"
    /\ scope_pc' = [scope_pc EXCEPT ![s] = "check"]
    /\ UNCHANGED << scope_blk, stop_event, streaming, nscans, done_queue, timers >>
    /\ UNCHANGED << gui_vars, galvo_vars, stream_vars >>

\* ps5000aGetStreamingLatestValues calls streaming_callback with a block;
\* first half of the callback: the message printed when the block reports
\* overflow, then adc_values.extend(block_a).
ScopeCallbackAnalog(s, blk, overflow) ==
    /\ error = "none"
    /\ UNCHANGED driver_vars
    /\ scope_pc[s] = "poll"
    /\ streaming
    /\ nblocks < MaxBlocks
    /\ nblocks' = nblocks + 1
    /\ overflow_warned' = (overflow_warned \/ overflow)
    /\ adc_values' = adc_values \o Ramp(Len(adc_values), Len(blk))
    /\ scope_blk' = [scope_blk EXCEPT ![s] = blk]
    /\ scope_pc' = [scope_pc EXCEPT ![s] = "cb"]
    /\ UNCHANGED << digital_values, stop_event, streaming, nscans, done_queue,
                    timers >>
    /\ UNCHANGED << gui_vars, galvo_vars >>

\* Second half of the callback: digital_values.extend(block_d).
ScopeCallbackDigital(s) ==
    /\ error = "none"
    /\ UNCHANGED driver_vars
    /\ scope_pc[s] = "cb"
    /\ digital_values' = digital_values \o scope_blk[s]
    /\ scope_blk' = [scope_blk EXCEPT ![s] = << >>]
    /\ scope_pc' = [scope_pc EXCEPT ![s] = "check"]
    /\ UNCHANGED << adc_values, nblocks, overflow_warned, stop_event,
                    streaming, nscans, done_queue, timers >>
    /\ UNCHANGED << gui_vars, galvo_vars >>

\* After the loop: ps5000aStop(self.chandle).
ScopeStop(s) ==
    /\ error = "none"
    /\ UNCHANGED driver_vars
    /\ scope_pc[s] = "stopping"
    /\ streaming' = FALSE
    /\ scope_pc' = [scope_pc EXCEPT ![s] = "done"]
    /\ UNCHANGED << scope_blk, stop_event, nscans, done_queue, timers >>
    /\ UNCHANGED << gui_vars, galvo_vars, stream_vars >>

\* ------------------------------------------------- calls on the drivers
\* moveXY(x, y) of the 16-bit or of the 18-bit encoder is called.  With keep
\* the call and its result are remembered for a later comparison.
MoveXYCall(bits, x, y, keep) ==
    /\ call' = Called(IF bits = 18 THEN "moveXY18" ELSE "moveXY16", x, y, NoDev)
    /\ ret' = IF bits = 18 THEN moveXY18(x, y) ELSE moveXY16(x, y)
    /\ ops' = << >>
    /\ wire' = << >>
    /\ kept' = IF keep THEN [call |-> call', ret |-> ret', age |-> 0]
               ELSE IF kept = << >> THEN kept
               ELSE [kept EXCEPT !.age = IF @ < 2 THEN @ + 1 ELSE @]
    /\ UNCHANGED << tab_vars, pico_vars >>

\* Galvo_D2XX.GALVO.move(x, y) on a device whose write does dev.write.
MoveCall(x, y, dev) ==
    LET r == Move(x, y, dev) IN
    /\ call' = Called("move", x, y, dev)
    /\ ret' = [raised |-> r.raised, value |-> r.value]
    /\ ops' = r.ops
    /\ wire' = r.wire
    /\ UNCHANGED << tab_vars, pico_vars, kept >>

\* send_frame_atomic of the pyftdi driver with the frame of moveXY(x, y), on
\* a device whose exchange does dev.write and whose write_data does dev.retry.
PyftdiSendCall(x, y, dev) ==
    LET r == PyftdiSendFrameAtomic(moveXY18(x, y).value, dev) IN
    /\ call' = Called("pyftdi_send", x, y, dev)
    /\ ret' = [raised |-> r.raised, value |-> r.value]
    /\ ops' = r.ops
    /\ wire' = r.wire
    /\ UNCHANGED << tab_vars, pico_vars, kept >>

\* move of the pyftdi driver, on a device whose exchange does dev.write and
\* whose write_data does dev.retry.
PyftdiMoveCall(x, y, dev) ==
    LET r == PyftdiMove(x, y, dev) IN
    /\ call' = Called("pyftdi_move", x, y, dev)
    /\ ret' = [raised |-> r.raised, value |-> r.value]
    /\ ops' = r.ops
    /\ wire' = r.wire
    /\ UNCHANGED << tab_vars, pico_vars, kept >>

\* Picoscope.start_stream.  No poll thread exists, so the early return is
\* not taken; the containers and a fresh _stop_event are assigned; then the
\* arguments of ps5000aRunStreaming are evaluated and len(self._buf_a)
\* raises AttributeError, as nothing assigns _buf_a.  The lines that create
\* and start _poll_thread are not reached.
PicoStartStream ==
    /\ call' = Called("start_stream", Fin(0), Fin(0), NoDev)
    /\ has_stop_event' = TRUE
    /\ pico_stop_event' = FALSE
    /\ pico_analog' = << >>
    /\ pico_digital' = << >>
    /\ pico_done' = FALSE
    /\ ret' = Raised("AttributeError")
    /\ ops' = << >>
    /\ wire' = << >>
    /\ UNCHANGED << tab_vars, kept, pico_in, pico_out >>

\* Picoscope.stop_stream: returns at once without _stop_event; else sets it
\* and joins self._poll_thread, an attribute that does not exist.
PicoStopStream ==
    /\ call' = Called("stop_stream", Fin(0), Fin(0), NoDev)
    /\ IF ~has_stop_event
       THEN /\ ret' = NoRet
            /\ UNCHANGED pico_stop_event
       ELSE /\ pico_stop_event' = TRUE
            /\ ret' = Raised("AttributeError")
    /\ ops' = << >>
    /\ wire' = << >>
    /\ UNCHANGED << tab_vars, kept, has_stop_event, pico_analog, pico_digital,
                    pico_done, pico_in, pico_out >>

\* hasattr(Picoscope, '_buf_a'): no statement of the driver assigns _buf_a
\* or _buf_d.
HasBuffers == FALSE

\* Picoscope._streaming_callback called by the device library with a block
\* of n samples.  The library obtains the callback from start_stream, so the
\* containers exist.  An empty block returns at once; otherwise the slice of
\* self._buf_a raises AttributeError before the lock is taken (the exception
\* ends the callback; the library goes on).  overflow is not read.
PicoCallback(n, overflow, auto_stop) ==
    /\ has_stop_event
    /\ pico_in + n <= MaxBlocks * MaxPoints
    /\ call' = Called("callback", Fin(n), Fin(0),
                      [overflow |-> overflow, auto_stop |-> auto_stop])
    /\ pico_in' = pico_in + n
    /\ ops' = << >>
    /\ wire' = << >>
    /\ IF n = 0
       THEN /\ ret' = NoRet
            /\ UNCHANGED << pico_analog, pico_digital, pico_done >>
       ELSE IF ~HasBuffers
       THEN /\ ret' = Raised("AttributeError")
            /\ UNCHANGED << pico_analog, pico_digital, pico_done >>
       ELSE /\ pico_analog' = pico_analog \o Ramp(pico_in, n)
            /\ pico_digital' = pico_digital \o Run(0, n)
            /\ pico_done' = (pico_done \/ auto_stop)
            /\ ret' = NoRet
    /\ UNCHANGED << tab_vars, kept, has_stop_event, pico_stop_event, pico_out >>

\* Picoscope.get_latest_values: under the lock, copies both lists and clears
\* both.  Before any start_stream self._lock does not exist.
PicoGetLatestValues ==
    /\ call' = Called("get_latest_values", Fin(0), Fin(0), NoDev)
    /\ ops' = << >>
    /\ wire' = << >>
    /\ IF ~has_stop_event
       THEN /\ ret' = Raised("AttributeError")
            /\ UNCHANGED << pico_analog, pico_digital, pico_out >>
       ELSE /\ ret' = Returned(<< pico_analog, pico_digital >>)
            /\ pico_out' = pico_out \o pico_analog
            /\ pico_analog' = << >>
            /\ pico_digital' = << >>
    /\ UNCHANGED << tab_vars, kept, has_stop_event, pico_stop_event, pico_done,
                    pico_in >>

\* ---------------------------------------------------- the sweep workers
\* xs[::-1].
Reversed(seq) == [i \in 1..Len(seq) |-> seq[Len(seq) + 1 - i]]

\* The x values of a sweep, each named by its index in xs.
Xs(cols) == [i \in 1..cols |-> i - 1]

\* "x_iter": xs reversed on the odd rows of a serpentine sweep.
Reverse == sweep_serp /\ sweep_iy % 2 = 1
XIter == IF Reverse THEN Reversed(Xs(sweep_shape[2])) ELSE Xs(sweep_shape[2])

\* "ix = (len(self._xs)-1 - ix_local) if reverse else ix_local".
AbsIx == IF Reverse THEN sweep_shape[2] - 1 - sweep_k ELSE sweep_k

\* A worker is constructed over a grid and started: GalvoWorker of the
\* imaging tab, or _ScanWorker of the photocurrent tab.
SweepStart(kind, serp, rows, cols) ==
    /\ sweep_pc = "none"
    /\ sweep_kind' = kind
    /\ sweep_serp' = serp
    /\ sweep_shape' = << rows, cols >>
    /\ sweep_pc' = "row"
    /\ UNCHANGED << sweep_iy, sweep_k, sweep_stop, sweep_moves, sweep_late,
                    sweep_reports, sweep_finished >>
    /\ UNCHANGED << imaging_vars, galvo_driver_vars, pico_vars, edge_vars,
                    pp_vars >>

\* stop(): "self._stop = True", called from the GUI thread at any time.
SweepStop ==
    /\ sweep_pc # "none"
    /\ ~sweep_stop
    /\ sweep_stop' = TRUE
    /\ UNCHANGED << sweep_kind, sweep_serp, sweep_shape, sweep_pc, sweep_iy,
                    sweep_k, sweep_moves, sweep_late, sweep_reports,
                    sweep_finished >>
    /\ UNCHANGED << imaging_vars, galvo_driver_vars, pico_vars, edge_vars,
                    pp_vars >>

\* The test at the head of the row loop.  No row left: the loop ends, and
\* finished is emitted (GalvoWorker: in finally; _ScanWorker: "Scan
\* complete.").  _stop set: GalvoWorker breaks, _ScanWorker emits "Scan
\* stopped by user." and returns.
SweepRowCheck ==
    /\ sweep_pc = "row"
    /\ IF sweep_iy = sweep_shape[1]
       THEN /\ sweep_pc' = "done"
            /\ sweep_finished' = Append(sweep_finished,
                   IF sweep_kind = "GalvoWorker" THEN "finished" ELSE "complete")
            /\ UNCHANGED sweep_k
       ELSE IF sweep_stop
       THEN /\ sweep_pc' = "done"
            /\ sweep_finished' = Append(sweep_finished,
                   IF sweep_kind = "GalvoWorker" THEN "finished" ELSE "stopped")
            /\ UNCHANGED sweep_k
       ELSE /\ sweep_pc' = "point"
            /\ sweep_k' = 0
            /\ UNCHANGED sweep_finished
    /\ UNCHANGED << sweep_kind, sweep_serp, sweep_shape, sweep_iy, sweep_stop,
                    sweep_moves, sweep_late, sweep_reports >>
    /\ UNCHANGED << imaging_vars, galvo_driver_vars, pico_vars, edge_vars,
                    pp_vars >>

\* SweepPointCheck as it would be without the test of _stop.
SweepPointCheckNoFlag ==
    /\ sweep_pc = "point"
    /\ IF sweep_k = sweep_shape[2]
       THEN /\ sweep_pc' = "row"
            /\ sweep_iy' = sweep_iy + 1
       ELSE /\ sweep_pc' = "move"
            /\ UNCHANGED sweep_iy
    /\ UNCHANGED sweep_finished
    /\ UNCHANGED << sweep_kind, sweep_serp, sweep_shape, sweep_k, sweep_stop,
                    sweep_moves, sweep_late, sweep_reports >>
    /\ UNCHANGED << imaging_vars, galvo_driver_vars, pico_vars, edge_vars,
                    pp_vars >>

\* The test at the head of the point loop.  No point left in the row: on to
\* the next row.  _stop set: GalvoWorker breaks out of the row (the row loop
\* then tests _stop again), _ScanWorker emits "Scan stopped by user." and
\* returns.
SweepPointCheck ==
    /\ sweep_pc = "point"
    /\ IF sweep_k = sweep_shape[2]
       THEN /\ sweep_pc' = "row"
            /\ sweep_iy' = sweep_iy + 1
            /\ UNCHANGED sweep_finished
       ELSE IF sweep_stop
       THEN IF sweep_kind = "GalvoWorker"
            THEN /\ sweep_pc' = "row"
                 /\ sweep_iy' = sweep_iy + 1
                 /\ UNCHANGED sweep_finished
            ELSE /\ sweep_pc' = "done"
                 /\ sweep_finished' = Append(sweep_finished, "stopped")
                 /\ UNCHANGED sweep_iy
       ELSE /\ sweep_pc' = "move"
            /\ UNCHANGED << sweep_iy, sweep_finished >>
    /\ UNCHANGED << sweep_kind, sweep_serp, sweep_shape, sweep_k, sweep_stop,
                    sweep_moves, sweep_late, sweep_reports >>
    /\ UNCHANGED << imaging_vars, galvo_driver_vars, pico_vars, edge_vars,
                    pp_vars >>

\* "self._galvo.move(float(x), float(y))" with the x the iterator is at.
\* GalvoWorker prints an exception and goes on to the next point;
\* _ScanWorker emits finished with the error and returns, else goes on to
\* read the lock-in.
SweepMove(raises) ==
    /\ sweep_pc = "move"
    /\ sweep_moves' = Append(sweep_moves, << XIter[sweep_k + 1], sweep_iy >>)
    /\ sweep_late' = IF sweep_stop THEN sweep_late + 1 ELSE sweep_late
    /\ IF sweep_kind = "GalvoWorker"
       THEN /\ sweep_pc' = "point"
            /\ sweep_k' = sweep_k + 1
            /\ UNCHANGED sweep_finished
       ELSE IF raises
       THEN /\ sweep_pc' = "done"
            /\ sweep_finished' = Append(sweep_finished, "error")
            /\ UNCHANGED sweep_k
       ELSE /\ sweep_pc' = "read"
            /\ UNCHANGED << sweep_k, sweep_finished >>
    /\ UNCHANGED << sweep_kind, sweep_serp, sweep_shape, sweep_iy, sweep_stop,
                    sweep_reports >>
    /\ UNCHANGED << imaging_vars, galvo_driver_vars, pico_vars, edge_vars,
                    pp_vars >>

\* SweepRead as it would be if it reported the index within the row.
SweepReadLocalIx(raises) ==
    /\ sweep_pc = "read"
    /\ IF raises
       THEN /\ sweep_pc' = "done"
            /\ sweep_finished' = Append(sweep_finished, "error")
            /\ UNCHANGED << sweep_k, sweep_reports >>
       ELSE /\ sweep_reports' = Append(sweep_reports,
                   << sweep_k, sweep_iy, sweep_moves[Len(sweep_moves)] >>)
            /\ sweep_pc' = "point"
            /\ sweep_k' = sweep_k + 1
            /\ UNCHANGED sweep_finished
    /\ UNCHANGED << sweep_kind, sweep_serp, sweep_shape, sweep_iy, sweep_stop,
                    sweep_moves, sweep_late >>
    /\ UNCHANGED << imaging_vars, galvo_driver_vars, pico_vars, edge_vars,
                    pp_vars >>

\* _ScanWorker: "val = float(self._lockin.read_x())" at the point just moved
\* to, then "self.progress.emit(ix, iy, val)"; an exception of the read
\* emits finished with the error and returns.
SweepRead(raises) ==
    /\ sweep_pc = "read"
    /\ IF raises
       THEN /\ sweep_pc' = "done"
            /\ sweep_finished' = Append(sweep_finished, "error")
            /\ UNCHANGED << sweep_k, sweep_reports >>
       ELSE /\ sweep_reports' = Append(sweep_reports,
                   << AbsIx, sweep_iy, sweep_moves[Len(sweep_moves)] >>)
            /\ sweep_pc' = "point"
            /\ sweep_k' = sweep_k + 1
            /\ UNCHANGED sweep_finished
    /\ UNCHANGED << sweep_kind, sweep_serp, sweep_shape, sweep_iy, sweep_stop,
                    sweep_moves, sweep_late >>
    /\ UNCHANGED << imaging_vars, galvo_driver_vars, pico_vars, edge_vars,
                    pp_vars >>

\* ------------------------------------------- the streaming tab's pixels
\* The digital part of a block handed to _consume_scope_data.
EdgeBlocks == {<< a >> : a \in Levels} \cup {<< a, b >> : a \in Levels, b \in Levels}

\* The tab as _consume_scope_data reads and writes it.
EdgeState == [image |-> edge_image, cells |-> edge_cells, prev_d |-> edge_prev_d,
              row |-> edge_row, col |-> edge_col, points |-> edge_points]

\* The loop of _consume_scope_data from pair i of zip(analog, digital) on:
\* the rising-edge test against _prev_d, the store at [cur_row, cur_col] and
\* the step of the cursor; when the buffer is full _on_stop is called
\* (_finalize_scan sets image_data to None) and the loop is left.
RECURSIVE ConsumeLoop(_, _, _, _)
ConsumeLoop(st, analog, digital, i) ==
    IF i > Len(analog) \/ i > Len(digital) THEN st
    ELSE LET d      == digital[i] % 2
             rising == st.prev_d = 0 /\ d = 1
             seen   == [st EXCEPT !.prev_d = d]
         IN  IF ~rising THEN ConsumeLoop(seen, analog, digital, i + 1)
             ELSE LET ny     == st.image[1]
                      nx     == st.image[2]
                      fits   == st.row < ny
                      wraps  == fits /\ st.col + 1 >= nx
                      stored ==
                          [seen EXCEPT
                             !.points = @ + 1,
                             !.cells = IF fits
                                       THEN [@ EXCEPT ![st.row * nx + st.col + 1]
                                                          = analog[i]]
                                       ELSE @,
                             !.col = IF ~fits THEN @
                                     ELSE IF wraps THEN 0 ELSE @ + 1,
                             !.row = IF wraps THEN @ + 1 ELSE @]
                  IN  IF stored.row >= ny
                      THEN [stored EXCEPT !.image = << >>]
                      ELSE ConsumeLoop(stored, analog, digital, i + 1)

\* _on_start of imaging_tab.py (Start is enabled while no scan runs):
\* _alloc_image allocates the zeroed buffer and resets cur_row and cur_col.
EdgeStart(ny, nx) ==
    /\ edge_image = << >>
    /\ edge_scans < MaxScans
    /\ edge_scans' = edge_scans + 1
    /\ edge_image' = << ny, nx >>
    /\ edge_cells' = Zeros(ny * nx)
    /\ edge_row' = 0
    /\ edge_col' = 0
    /\ edge_stream' = << >>
    /\ edge_blocks' = 0
    /\ UNCHANGED << edge_prev_d, edge_points >>
    /\ UNCHANGED << imaging_vars, galvo_driver_vars, pico_vars, sweep_vars,
                    pp_vars >>

\* _on_stop of imaging_tab.py by the Stop button: the workers are stopped
\* and _finalize_scan sets image_data to None.
EdgeStop ==
    /\ edge_image # << >>
    /\ edge_image' = << >>
    /\ UNCHANGED << edge_cells, edge_prev_d, edge_row, edge_col, edge_points,
                    edge_stream, edge_blocks, edge_scans >>
    /\ UNCHANGED << imaging_vars, galvo_driver_vars, pico_vars, sweep_vars,
                    pp_vars >>

\* _consume_scope_data(analog, digital), the slot of ScopeWorker.new_block:
\* returns at once when no scan runs.
EdgeConsume(digital) ==
    /\ edge_scans > 0
    /\ edge_blocks < MaxBlocks
    /\ edge_blocks' = edge_blocks + 1
    /\ IF edge_image = << >>
       THEN UNCHANGED << edge_image, edge_cells, edge_prev_d, edge_row,
                         edge_col, edge_points, edge_stream >>
       ELSE LET analog == Ramp(Len(edge_stream), Len(digital))
                st     == ConsumeLoop(EdgeState, analog, digital, 1)
            IN  /\ edge_image' = st.image
                /\ edge_cells' = st.cells
                /\ edge_prev_d' = st.prev_d
                /\ edge_row' = st.row
                /\ edge_col' = st.col
                /\ edge_points' = st.points
                /\ edge_stream' = edge_stream \o digital
    /\ UNCHANGED edge_scans
    /\ UNCHANGED << imaging_vars, galvo_driver_vars, pico_vars, sweep_vars,
                    pp_vars >>

\* ---------------------------------------------------- PumpProbeOverlapTab
\* _run_phase(phase) when the digitizer calls succeed: the phase is set, the
\* sample lists and stop_event are cleared, streaming and the poll thread
\* are started, and a new GalvoWorker is created, connected to
\* _on_phase_finished and started.
RunPhase(phase) ==
    /\ pp_phase' = phase
    /\ pp_stop_event' = FALSE
    /\ pp_streaming' = TRUE
    /\ pp_nworkers' = pp_nworkers + 1
    /\ pp_worker' = pp_nworkers + 1
    /\ pp_run' = pp_run \cup {pp_nworkers + 1}

\* _on_start: the images are allocated, the buttons switched and
\* _run_phase(PHASE_PUMP) is called.  With pico_ok false an assert_pico_ok
\* of _run_phase raises, after the phase was set and before anything was
\* started.
PPStart(pico_ok) ==
    /\ ~pp_error
    /\ pp_start_enabled
    /\ pp_scans < MaxScans
    /\ pp_scans' = pp_scans + 1
    /\ pp_start_enabled' = FALSE
    /\ IF pico_ok
       THEN /\ RunPhase(PHASE_PUMP)
            /\ UNCHANGED pp_error
       ELSE /\ pp_phase' = PHASE_PUMP
            /\ pp_stop_event' = FALSE
            /\ pp_error' = TRUE
            /\ UNCHANGED << pp_streaming, pp_nworkers, pp_worker, pp_run >>
    /\ UNCHANGED << pp_wstop, pp_queue, pp_pump, pp_probe >>
    /\ UNCHANGED << imaging_vars, galvo_driver_vars, pico_vars, sweep_vars,
                    edge_vars >>

\* _on_stop (Stop clicked): self.worker.stop() when there is a worker,
\* stop_event set, the digitizer stopped, the phase reset to IDLE and the
\* buttons switched back.
PPStop ==
    /\ ~pp_error
    /\ ~pp_start_enabled
    /\ pp_wstop' = IF pp_worker # 0 THEN pp_wstop \cup {pp_worker} ELSE pp_wstop
    /\ pp_stop_event' = TRUE
    /\ pp_streaming' = FALSE
    /\ pp_phase' = PHASE_IDLE
    /\ pp_start_enabled' = TRUE
    /\ UNCHANGED << pp_worker, pp_nworkers, pp_run, pp_queue, pp_scans, pp_pump,
                    pp_probe, pp_error >>
    /\ UNCHANGED << imaging_vars, galvo_driver_vars, pico_vars, sweep_vars,
                    edge_vars >>

\* GalvoWorker.run of worker w ends, its sweep done or its _stop seen, and
\* emits finished; the slot lives in the GUI thread, so the signal is
\* queued.
PPWorkerFinish(w) ==
    /\ ~pp_error
    /\ w \in pp_run
    /\ pp_run' = pp_run \ {w}
    /\ pp_queue' = Append(pp_queue, w)
    /\ UNCHANGED << pp_phase, pp_start_enabled, pp_stop_event, pp_streaming,
                    pp_worker, pp_nworkers, pp_wstop, pp_scans, pp_pump,
                    pp_probe, pp_error >>
    /\ UNCHANGED << imaging_vars, galvo_driver_vars, pico_vars, sweep_vars,
                    edge_vars >>

\* _on_phase_finished, run for the oldest queued finished signal: stop_event
\* is set, the digitizer stopped and the samples are extracted; in phase
\* PUMP the pump image is stored and _run_phase(PHASE_PROBE) is called; in
\* phase PROBE the probe image is stored and the tab returns to IDLE.  The
\* slot does not look at which worker sent the signal.
PPOnPhaseFinished(pico_ok) ==
    /\ ~pp_error
    /\ pp_queue # << >>
    /\ pp_queue' = Tail(pp_queue)
    /\ IF pp_phase = PHASE_PUMP
       THEN /\ pp_pump' = Head(pp_queue)
            /\ IF pico_ok
               THEN /\ RunPhase(PHASE_PROBE)
                    /\ UNCHANGED pp_error
               ELSE /\ pp_phase' = PHASE_PROBE
                    /\ pp_stop_event' = FALSE
                    /\ pp_streaming' = FALSE
                    /\ pp_error' = TRUE
                    /\ UNCHANGED << pp_nworkers, pp_worker, pp_run >>
            /\ UNCHANGED << pp_probe, pp_start_enabled >>
       ELSE /\ pp_stop_event' = TRUE
            /\ pp_streaming' = FALSE
            /\ IF pp_phase = PHASE_PROBE
               THEN /\ pp_probe' = Head(pp_queue)
                    /\ pp_phase' = PHASE_IDLE
                    /\ pp_start_enabled' = TRUE
               ELSE UNCHANGED << pp_probe, pp_phase, pp_start_enabled >>
            /\ UNCHANGED << pp_pump, pp_nworkers, pp_worker, pp_run, pp_error >>
    /\ UNCHANGED << pp_wstop, pp_scans >>
    /\ UNCHANGED << imaging_vars, galvo_driver_vars, pico_vars, sweep_vars,
                    edge_vars >>

\* ----------------------------------------------------------- specification
Start == \E ny \in Points, nx \in Points, pico_ok \in BOOLEAN :
             OnStart(ny, nx, pico_ok)
\* In Spec every galvo.move call succeeds; SpecSweep adds the failing ones.
Galvo == \E s \in Scans : GalvoMove(s, "True") \/ GalvoFinish(s)
Scope == \E s \in Scans :
             \/ ScopeCheck(s)
             \/ ScopePollEmpty(s)
             \/ \E blk \in Blocks : ScopeCallbackAnalog(s, blk, FALSE)
             \/ ScopeCallbackDigital(s)
             \/ ScopeStop(s)

Next ==
    \/ Start
    \/ OnStopClick
    \/ OnGalvoDone
    \/ OnStopTimer
    \/ OnStopBody
    \/ Galvo
    \/ Scope

Spec == Init /\ [][Next]_vars

\* The sweep with galvo.move calls that fail.
SendFails == \E s \in Scans : GalvoMove(s, "False") \/ GalvoMove(s, "raise")

NextSweep == Next \/ SendFails

SpecSweep == Init /\ [][NextSweep]_vars

\* The scan with blocks that report overflow.
Overflows == \E s \in Scans, blk \in Blocks : ScopeCallbackAnalog(s, blk, TRUE)

NextOverflow == Next \/ Overflows

SpecOverflow == Init /\ [][NextOverflow]_vars

\* The encoders called on their own.
NextEncoder == \E bits \in {16, 18}, x \in Coords, y \in Coords :
                   MoveXYCall(bits, x, y, FALSE)

SpecEncoder == Init /\ [][NextEncoder]_vars

\* The 18-bit encoder called again and again, some calls remembered.
NextRecall == \E x \in Coords, y \in Targets, keep \in BOOLEAN :
                  MoveXYCall(18, x, y, keep)

SpecRecall == Init /\ [][NextRecall]_vars

\* The senders and the digitizer driver called on their own.
NextTransport ==
    \/ \E x \in Targets, y \in Targets, w \in D2xxWrites :
           MoveCall(x, y, [write |-> w, retry |-> NoOutcome])
    \/ \E x \in Corners, y \in Corners, e \in Exchanges, w \in PaddedWrites :
           PyftdiSendCall(x, y, [write |-> e, retry |-> w])
    \/ \E x \in Corners, e \in Exchanges, w \in PaddedWrites :
           PyftdiMoveCall(x, Fin(0), [write |-> e, retry |-> w])
    \/ PicoStartStream
    \/ PicoStopStream

SpecTransport == Init /\ [][NextTransport]_vars

\* PumpProbeOverlapTab: scans started and stopped, workers ending, their
\* signals handled.
NextPhases ==
    \/ \E pico_ok \in BOOLEAN : PPStart(pico_ok)
    \/ PPStop
    \/ \E w \in 1..(2 * MaxScans) : PPWorkerFinish(w)
    \/ \E pico_ok \in BOOLEAN : PPOnPhaseFinished(pico_ok)

SpecPhases == Init /\ [][NextPhases]_vars

\* The streaming tab: scans started and stopped, blocks consumed.
NextEdge ==
    \/ \E ny \in Points, nx \in Points : EdgeStart(ny, nx)
    \/ EdgeStop
    \/ \E digital \in EdgeBlocks : EdgeConsume(digital)

SpecEdge == Init /\ [][NextEdge]_vars

\* A sweep worker run on its own, stop() called at any time or never.
SweepStarts ==
    \E rows \in Points, cols \in Points :
       \/ SweepStart("GalvoWorker", FALSE, rows, cols)
       \/ \E serp \in BOOLEAN : SweepStart("_ScanWorker", serp, rows, cols)

SweepSteps ==
    \/ SweepRowCheck
    \/ SweepPointCheck
    \/ \E raises \in BOOLEAN : SweepMove(raises)
    \/ \E raises \in BOOLEAN : SweepRead(raises)

NextWorker == SweepStarts \/ SweepStop \/ SweepSteps

SpecWorker == Init /\ [][NextWorker]_vars

\* The worker's thread keeps running: each of its steps is taken in time.
WorkerFairness ==
    /\ WF_vars(SweepRowCheck)
    /\ WF_vars(SweepPointCheck)
    /\ WF_vars(\E raises \in BOOLEAN : SweepMove(raises))
    /\ WF_vars(\E raises \in BOOLEAN : SweepRead(raises))

SpecWorkerFair == SpecWorker /\ WorkerFairness

\* The digitizer driver called on its own: the device library delivers
\* blocks to the callback while a consumer fetches.
NextPico ==
    \/ PicoStartStream
    \/ PicoStopStream
    \/ \E n \in 0..MaxPoints, overflow \in BOOLEAN, auto_stop \in BOOLEAN :
           PicoCallback(n, overflow, auto_stop)
    \/ PicoGetLatestValues

SpecPico == Init /\ [][NextPico]_vars

\* =========================================================================
\* The extractor on its own: _on_stop has been entered for the one scan of
\* the run, the sweep is over and the poll thread has seen stop_event and
\* ended; the slot then runs its loop, render_picture and _finalize_scan over
\* the stream that was recorded.
RECURSIVE StreamsUpTo(_)
StreamsUpTo(n) ==
    IF n = 0 THEN {<< >>}
    ELSE LET S == StreamsUpTo(n - 1) IN S \cup {s \o r : s \in S, r \in Runs}

InitExtract ==
    /\ \E ny \in Points, nx \in Points :
          /\ image_data = << ny, nx >>
          /\ galvo_total = [s \in Scans |-> IF s = 1 THEN ny * nx ELSE 0]
    /\ \E stream \in StreamsUpTo(MaxRuns) :
          /\ digital_values = stream
          /\ adc_values = Ramp(0, Len(stream))
    /\ start_enabled = FALSE
    /\ stop_enabled = TRUE
    /\ canvas = << >>
    /\ warning = "none"
    /\ found = 0
    /\ stop_event = TRUE
    /\ streaming = FALSE
    /\ galvo_worker = 1
    /\ nscans = 1
    /\ galvo_pc = [s \in Scans |-> IF s = 1 THEN "done" ELSE "none"]
    /\ galvo_idx = galvo_total
    /\ galvo_stop = [s \in Scans |-> FALSE]
    /\ send_failed = [s \in Scans |-> FALSE]
    /\ scope_pc = [s \in Scans |-> IF s = 1 THEN "done" ELSE "none"]
    /\ scope_blk = [s \in Scans |-> << >>]
    /\ nblocks = 0
    /\ overflow_warned = FALSE
    /\ done_queue = 0
    /\ timers = 0
    /\ gui_pc = "on_stop"
    /\ error = "none"
    /\ DriversInit

NextExtract == OnStopBody

SpecExtract == InitExtract /\ [][NextExtract]_vars

\* ------------------------------------------------- vocabulary of the claims
\* Rising edges as the specification defines them (section 4.4, glossary);
\* the trigger is bit D0 of the port word.
TriggerSet(word) == word % 2 = 1

\* Positions (1-based) where the trigger bit goes from unset to set, the
\* level before the first sample taken as unset.
RisingEdges(dig) ==
    {p \in 1..Len(dig) :
        TriggerSet(dig[p]) /\ (p = 1 \/ ~TriggerSet(dig[p - 1]))}

\* The k-th rising edge, k = 1 for the first.
KthEdge(dig, k) ==
    CHOOSE e \in RisingEdges(dig) :
        Cardinality({x \in RisingEdges(dig) : x <= e}) = k

\* Cell (row, col), both from 0, of a grid stored row-major.
Cell(grid, row, col) == grid.cells[row * grid.shape[2] + col + 1]

\* The values the extraction loop collects from the recorded stream.
Extracted == ExtractLoop(digital_values, adc_values, 0, << >>).vals

Idle == start_enabled /\ ~stop_enabled

\* _on_stop has run to its end or has raised.
OnStopOver == gui_pc \in {"idle", "raised"}

\* C1 (as claimed): a stream with exactly rows*cols rising edges of the
\* trigger bit, each with its offset sample inside the analog stream of the
\* same length, gives a grid of shape (rows, cols) whose k-th row-major cell
\* is analog[e_k + 50].
C1_EveryEdgeOnePixelRowMajor ==
    LET n == galvo_total[1] IN
    ( /\ OnStopOver
      /\ nscans = 1
      /\ Len(adc_values) = Len(digital_values)
      /\ Cardinality(RisingEdges(digital_values)) = n
      /\ \A e \in RisingEdges(digital_values) :
             e + SampleOffset <= Len(adc_values) )
    => /\ gui_pc = "idle"
       /\ canvas # << >>
       /\ canvas.shape[1] * canvas.shape[2] = n
       /\ Len(canvas.cells) = n
       /\ \A k \in 0..(n - 1) :
             Cell(canvas, k \div canvas.shape[2], k % canvas.shape[2])
                 = adc_values[KthEdge(digital_values, k + 1) + SampleOffset]

\* C2 (as claimed): the extractor finds one pixel per rising edge of the
\* trigger bit, whatever the width of the pulse and the other bits of the
\* port word.
C2_OnePixelPerRisingEdge ==
    (gui_pc = "idle" /\ nscans = 1 /\ canvas # << >>)
    => found = Cardinality(RisingEdges(digital_values))

C4_TruncatedToGrid ==
    [][ ( /\ gui_pc = "on_stop"
          /\ gui_pc' = "idle"
          /\ image_data # << >> )
        => /\ canvas'.shape = image_data
           /\ Len(canvas'.cells) = image_data[1] * image_data[2]
           /\ found' > image_data[1] * image_data[2]
                => /\ \A j \in 1..Len(canvas'.cells) :
                          canvas'.cells[j] = Extracted[j]
                   /\ warning' = "truncating"
      ]_vars

\* A 1 x 1 scan ended with two extracted values: the first one is drawn.
C4_Witness ==
    /\ gui_pc = "idle"
    /\ canvas # << >>
    /\ canvas.shape = << 1, 1 >>
    /\ warning = "truncating"
    /\ found = 2
    /\ canvas.cells = << Extracted[1] >>

\* =========================================================================
\* The tab with its worker threads.

\* Sweep workers whose run() has not returned, poll threads that have not
\* returned from scope_thread.
LiveWorkers == {s \in Scans : galvo_pc[s] = "run"}
LivePolls   == {s \in Scans : scope_pc[s] \in {"check", "poll", "cb", "stopping"}}

\* A poll thread that is past its stop_event test, or inside the callback,
\* can still append to the sample lists.
CanAppend(s) == scope_pc[s] \in {"poll", "cb"}

\* C5 (as claimed): the tab is back in Idle (Start enabled, Stop disabled,
\* _on_stop returned) only when the sweep worker and the poll thread have
\* terminated.
C5_IdleOnlyAfterTermination ==
    (Idle /\ gui_pc = "idle") => (LiveWorkers = {} /\ LivePolls = {})

\* C6 (as claimed): while _on_stop reads the sample lists, no poll thread can
\* still append to them.
C6_NoAppendWhileExtracting ==
    gui_pc = "on_stop" => \A s \in Scans : ~CanAppend(s)

\* C7 (as claimed): as long as the sweep worker of a scan has a position
\* frame left to send, the digitizer is streaming: the stream is started
\* before the first frame and stopped only after the last one.
C7_StreamCoversSweep ==
    \A s \in Scans :
        (galvo_pc[s] = "run" /\ galvo_idx[s] < galvo_total[s]) => streaming

\* C9 (as claimed): at every moment at most one sweep worker and at most one
\* poll thread are alive.
C9_OneSweepOnePoll ==
    Cardinality(LiveWorkers) <= 1 /\ Cardinality(LivePolls) <= 1

\* ---------------------------------------------------------------- fairness
\* The threads run, queued signals and due timers are delivered, and a slot
\* that was entered runs on.  Clicks and new samples are not promised.
Fairness ==
    /\ \A s \in Scans :
          /\ WF_vars(GalvoMove(s, "True"))
          /\ WF_vars(GalvoFinish(s))
          /\ WF_vars(ScopeCheck(s))
          /\ WF_vars(ScopePollEmpty(s))
          /\ WF_vars(ScopeCallbackDigital(s))
          /\ WF_vars(ScopeStop(s))
    /\ WF_vars(OnGalvoDone)
    /\ WF_vars(OnStopTimer)
    /\ WF_vars(OnStopBody)

SpecFair == Spec /\ Fairness

\* _on_start has started the threads of a scan and the tab shows it running.
Running == stop_enabled /\ ~start_enabled /\ error = "none"

\* C10 (as claimed): every scan that was started returns to Idle.
C10_ScanReturnsToIdle == Running ~> Idle

\* ------------------------------------------------- abort called from outside
\* _on_stop called by a caller other than the Stop button and the timer, in
\* whatever state the tab is.
OnStopCall ==
    /\ gui_pc = "idle"
    /\ error = "none"
    /\ UNCHANGED driver_vars
    /\ OnStopEnter
    /\ UNCHANGED << start_enabled, stop_enabled, image_data, canvas, warning,
                    found, galvo_worker, error, streaming, nscans,
                    done_queue, timers >>
    /\ UNCHANGED << galvo_vars, scope_vars, stream_vars >>

NextApi == Next \/ OnStopCall

SpecApi == Init /\ [][NextApi]_vars

\* C8 (as claimed): _on_stop before any start leaves the tab as it was
\* constructed (its buttons, buffer, figure, worker and sample lists), and no
\* call of _on_stop, before or after a start, first or repeated, ends in an
\* error.
C8_AbortIsSafe ==
    /\ (nscans = 0 /\ gui_pc = "idle")
          => /\ Idle
             /\ image_data = << >>
             /\ canvas = << >>
             /\ galvo_worker = 0
             /\ adc_values = << >>
             /\ digital_values = << >>
    /\ gui_pc # "on_stop" => error # "IndexError"

\* =========================================================================
\* The sweep and the drivers.

\* C11 (as claimed): once a galvo.move call of a sweep has failed (raised or
\* returned False), the worker of that scan sends no further frame.
C11_FailedSendStopsSweep ==
    [][ \A s \in Scans : send_failed[s] => galvo_idx'[s] = galvo_idx[s] ]_vars

\* ---- what a frame carries
RECURSIVE Pow2(_)
Pow2(n) == IF n = 0 THEN 1 ELSE 2 * Pow2(n - 1)

Abs(v) == IF v < 0 THEN -v ELSE v

\* The bit depth of the encoder that was called.
NBits == IF call.op = "moveXY16" THEN 16 ELSE 18

\* The number written MSB-first by the nbits clock-high pin states that
\* precede the two-state postamble: pin is 2 for the x line (D1), 1 for the
\* y line (D0).
RECURSIVE CodeOf(_, _, _, _)
CodeOf(frame, nbits, pin, i) ==
    IF i = 0 THEN 0
    ELSE 2 * CodeOf(frame, nbits, pin, i - 1)
         + ((frame[Len(frame) - 2 - 2 * nbits + 2 * i - 1] \div pin) % 2)
CodeX(frame, nbits) == CodeOf(frame, nbits, 2, nbits)
CodeY(frame, nbits) == CodeOf(frame, nbits, 1, nbits)

EncoderCalled == call.op \in {"moveXY16", "moveXY18"}
IsFinite(c) == c.kind = "fin"
InRange(c) == IsFinite(c) /\ -Grain <= c.n /\ c.n <= Grain

\* C12: for finite x and y, in range or not, moveXY of either variant returns
\* a frame of exactly 40 bytes, which send_frame_atomic does not reject.
C12_FrameLength ==
    (EncoderCalled /\ IsFinite(call.x) /\ IsFinite(call.y))
    => /\ ret.raised = "none"
       /\ Len(ret.value) = FrameLen
       /\ \A w \in D2xxWrites :
             SendFrameAtomic(ret.value, [write |-> w, retry |-> NoOutcome]).raised
                 # "ValueError"

\* The 16-bit encoder has returned the frame of a point outside the range.
C12_Witness ==
    /\ call.op = "moveXY16"
    /\ call.x = Fin(MaxStep)
    /\ call.y = Fin(-MaxStep)
    /\ ret.raised = "none"
    /\ Len(ret.value) = FrameLen

\* code decoded with the inverse of the affine map [-1, 1] -> [0, 2^N - 1],
\* that is 2 * code / (2^N - 1) - 1, is within 1 / 2^N of n / Grain.  Both
\* sides are multiplied by Grain * (2^N - 1).
RoundTrips(code, n, nbits) ==
    Abs(2 * code * Grain - (Pow2(nbits) - 1) * Grain - n * (Pow2(nbits) - 1))
        <= (Grain * (Pow2(nbits) - 1)) \div Pow2(nbits)

\* C13 (as claimed): for x and y in [-1, 1] the codes in the frame decode to
\* x and y within 1 / 2^N.
C13_RoundTrip ==
    (EncoderCalled /\ InRange(call.x) /\ InRange(call.y))
    => /\ ret.raised = "none"
       /\ RoundTrips(CodeX(ret.value, NBits), call.x.n, NBits)
       /\ RoundTrips(CodeY(ret.value, NBits), call.y.n, NBits)

\* C14: moveXY(0, 0) carries the code 2^(N-1) on both axes, 32768 with 16
\* bits and 131072 with 18.
C14_ZeroIsMidScale ==
    (EncoderCalled /\ call.x = Fin(0) /\ call.y = Fin(0))
    => /\ ret.raised = "none"
       /\ CodeX(ret.value, NBits) = Pow2(NBits - 1)
       /\ CodeY(ret.value, NBits) = Pow2(NBits - 1)
       /\ Pow2(NBits - 1) = IF NBits = 16 THEN 32768 ELSE 131072

\* The 18-bit encoder has returned the frame of (0, 0).
C14_Witness ==
    /\ call.op = "moveXY18"
    /\ call.x = Fin(0)
    /\ call.y = Fin(0)
    /\ ret.raised = "none"
    /\ CodeX(ret.value, 18) = 131072
    /\ CodeY(ret.value, 18) = 131072

\* code is a nearest integer of (c + 1) / 2 * (2^N - 1) for c = n / Grain
\* (either neighbour on a tie); both sides are multiplied by 2 * Grain.
Rounded(code, n, nbits) ==
    Abs(2 * Grain * code - (n + Grain) * (Pow2(nbits) - 1)) <= Grain

\* C15 (as claimed): the code of a coordinate is round((c + 1) / 2 *
\* (2^N - 1)) for the clamped c; -1 gives 0 and +1 gives 2^N - 1.
C15_RoundsToNearest ==
    (EncoderCalled /\ IsFinite(call.x) /\ IsFinite(call.y))
    => /\ ret.raised = "none"
       /\ Rounded(CodeX(ret.value, NBits), Clamp(call.x).n, NBits)
       /\ Rounded(CodeY(ret.value, NBits), Clamp(call.y).n, NBits)
       /\ Clamp(call.x) = MinusOne => CodeX(ret.value, NBits) = 0
       /\ Clamp(call.x) = One => CodeX(ret.value, NBits) = Pow2(NBits) - 1

C17_ClampedPerAxis ==
    (call.op = "moveXY18" /\ IsFinite(call.x) /\ IsFinite(call.y))
    => /\ ret.raised = "none"
       /\ call.x.n > Grain => ret = moveXY18(One, call.y)
       /\ call.x.n < -Grain => ret = moveXY18(MinusOne, call.y)
       /\ call.y.n > Grain => ret = moveXY18(call.x, One)
       /\ call.y.n < -Grain => ret = moveXY18(call.x, MinusOne)
       /\ CodeX(ret.value, 18) = CodeX(moveXY18(call.x, Fin(0)).value, 18)
       /\ CodeY(ret.value, 18) = CodeY(moveXY18(Fin(0), call.y).value, 18)

\* x above the range with y inside it: x carries the top code, y its own.
C17_Witness ==
    /\ call.op = "moveXY18"
    /\ call.x = Fin(MaxStep)
    /\ call.y = Fin(-1)
    /\ ret.raised = "none"
    /\ CodeX(ret.value, 18) = Pow2(18) - 1
    /\ CodeY(ret.value, 18) = CodeY(moveXY18(Fin(0), Fin(-1)).value, 18)

\* C18 (as claimed): GALVO.move with nan or an infinity on either axis raises
\* and writes nothing to the device.
C18_NonFiniteRejected ==
    (call.op = "move" /\ (~IsFinite(call.x) \/ ~IsFinite(call.y)))
    => (ret.raised # "none" /\ wire = << >>)

\* C19 (as claimed): a send whose device is not open or accepts fewer than
\* 40 bytes of the frame is not reported as a success, and the sender makes
\* no second write.
C19_FailureReportedNoRetry ==
    ( /\ call.op \in {"move", "pyftdi_send"}
      /\ IsFinite(call.x) /\ IsFinite(call.y)
      /\ (call.dev.write.raises \/ call.dev.write.n < FrameLen) )
    => /\ (ret.raised # "none" \/ ret.value = FALSE)
       /\ Len(wire) <= 1

\* C20 (as claimed): stop_stream raises nothing, whatever was called before.
C20_StopStreamIsSafe ==
    call.op = "stop_stream" => ret.raised = "none"

\* =========================================================================
\* C21: when a block callback returns, the analog and the digital sequence
\* it accumulates into have the same length.
CallbackReturns == \E s \in Scans : scope_pc[s] = "cb" /\ scope_pc'[s] = "check"

C21_EqualLengthsAfterCallback ==
    [][CallbackReturns => Len(adc_values') = Len(digital_values')]_vars

\* =========================================================================
\* The tab's own callback on a block that reports overflow: the message is
\* printed, the analog samples are appended, the event and the device are
\* left as they were and the poll thread goes on to the digital half.
TabKeepsOverflowBlock ==
    [][\A s \in Scans :
          (scope_pc[s] = "poll" /\ scope_pc'[s] = "cb" /\ ~overflow_warned
              /\ overflow_warned')
          => /\ Len(adc_values') > Len(adc_values)
             /\ scope_blk'[s] # << >>
             /\ streaming' /\ stop_event' = stop_event]_vars

\* C22: a block whose callback reports overflow raises a warning and its
\* samples are still appended to both sequences (here: by the callback of
\* the Picoscope driver).
OverflowBlock ==
    call.op = "callback" /\ call.x # Fin(0) /\ call.dev.overflow

C22_OverflowWarnedAndKept ==
    OverflowBlock =>
        /\ overflow_warned
        /\ ret.raised = "none"
        /\ Len(pico_analog) > 0 /\ Len(pico_digital) > 0

Pin(b, k) == (b \div Pow2(k)) % 2

\* The two pin states of bit i (0-based) of a frame with nbits bits.
PairOf(frame, nbits, i) ==
    LET p == Len(frame) - 2 - 2 * nbits + 2 * i
    IN  << frame[p + 1], frame[p + 2] >>

\* Bit i (0-based, most significant first) of an nbits-bit code.
BitOf(code, nbits, i) == (code \div Pow2(nbits - 1 - i)) % 2

\* The code the encoder that was called computes for a coordinate.
CodeFor(c) ==
    IF NBits = 18 THEN ToCode(Clamp(c), Scale18, Mid18).value
    ELSE ToCode(Clamp(c), Scale16, Mid16).value

\* C23: after the preamble each bit i of the codes, most significant first,
\* is carried by two consecutive pin states with the same data, sync and
\* enable lines, the first with the clock cleared and the second with the
\* clock set; the two pin states of the postamble have the enable line
\* cleared.
C23_BitPairsClockLowThenHigh ==
    (EncoderCalled /\ ret.raised = "none")
    => LET frame == ret.value
           n     == Len(frame)
       IN  /\ \A i \in 0..(NBits - 1) :
                 LET pair == PairOf(frame, NBits, i) IN
                 /\ Pin(pair[1], 1) = BitOf(CodeFor(call.x), NBits, i)
                 /\ Pin(pair[1], 0) = BitOf(CodeFor(call.y), NBits, i)
                 /\ \A k \in {0, 1, 2, 4} : Pin(pair[1], k) = Pin(pair[2], k)
                 /\ Pin(pair[1], 3) = 0
                 /\ Pin(pair[2], 3) = 1
           /\ Pin(frame[n - 1], 4) = 0
           /\ Pin(frame[n], 4) = 0

\* =========================================================================
\* The operations of one send are in order: one or more purges, then one
\* write, and nothing after it.
PurgeThenOneWrite(o) ==
    /\ Len(o) >= 2
    /\ o[Len(o)] = "write"
    /\ \A k \in 1..(Len(o) - 1) : o[k] = "purge"

\* The sender of Galvo_D2XX on its own keeps that order.
D2xxPurgesThenWritesOnce ==
    (call.op = "move" /\ ops # << >>) => PurgeThenOneWrite(ops)

\* C24: in every call of send_frame_with_verification (reached through
\* move, of either driver) the transmit buffer is purged, then the frame is
\* written in exactly one write call, and no purge follows the write.
C24_PurgeThenOneWrite ==
    (call.op \in {"move", "pyftdi_move"} /\ ops # << >>)
    => PurgeThenOneWrite(ops)

\* =========================================================================
\* C25: the abort flag is examined between grid points: once stop() has been
\* called the worker makes at most the one galvo.move it was about to make,
\* no further one, and then ends and emits finished (once).
C25_StopEndsSweep ==
    /\ [](sweep_late <= 1)
    /\ sweep_stop ~> (sweep_pc = "done" /\ Len(sweep_finished) = 1)

\* A worker stopped while a move was under way has ended, having made that
\* move and left the rest of its grid.
C25_Witness ==
    /\ sweep_stop
    /\ sweep_pc = "done"
    /\ sweep_late = 1
    /\ Len(sweep_moves) < sweep_shape[1] * sweep_shape[2]
    /\ Len(sweep_finished) = 1

\* =========================================================================
\* The grid in row-major order: every x in order for the first y, then for
\* the next y.
RowMajor(rows, cols) ==
    [p \in 1..(rows * cols) |-> << (p - 1) % cols, (p - 1) \div cols >>]

\* The sweep has ended without stop() and without an error.
SweepCompleted ==
    /\ sweep_pc = "done"
    /\ ~sweep_stop
    /\ sweep_finished \in {<< "finished" >>, << "complete" >>}

\* C26: a sweep that is not aborted calls galvo.move once for each grid
\* point, rows*cols calls in all, in row-major order unless serpentine; and
\* _ScanWorker, serpentine or not, reports each value with the indexes
\* (ix, iy) of the point it was read at, one report per point.
C26_OneMovePerPointRowMajor ==
    SweepCompleted =>
        LET rows == sweep_shape[1]
            cols == sweep_shape[2]
        IN  /\ Len(sweep_moves) = rows * cols
            /\ \A ix \in 0..(cols - 1), iy \in 0..(rows - 1) :
                  Cardinality({p \in 1..Len(sweep_moves) :
                                   sweep_moves[p] = << ix, iy >>}) = 1
            /\ ~sweep_serp => sweep_moves = RowMajor(rows, cols)
            /\ sweep_kind = "_ScanWorker" =>
                  /\ Len(sweep_reports) = rows * cols
                  /\ \A p \in 1..Len(sweep_reports) :
                        << sweep_reports[p][1], sweep_reports[p][2] >>
                            = sweep_reports[p][3]

\* A serpentine sweep over the largest grid has completed.
C26_Witness ==
    /\ SweepCompleted
    /\ sweep_serp
    /\ sweep_shape = << MaxPoints, MaxPoints >>
    /\ Len(sweep_reports) = MaxPoints * MaxPoints

\* =========================================================================
\* C28: the extraction loop never reads adc_values past its end, also when
\* a trigger lies within the sample offset of the end of the stream: the
\* extraction never raises.
C28_ExtractionInBounds ==
    ~ExtractLoop(digital_values, adc_values, 0, << >>).raised

\* =========================================================================
\* The cells a scan over a stream fills when the stream is taken as one
\* block and the trigger level before it as low: the k-th cell holds the
\* analog sample at the k-th rising edge, the cells past the last edge the
\* zero they were allocated with.
RefCells(stream, n) ==
    [k \in 1..n |-> IF k <= Cardinality(RisingEdges(stream))
                    THEN KthEdge(stream, k) ELSE 0]

CellsAsOneBlock ==
    edge_scans > 0 =>
        edge_cells = RefCells(edge_stream, Len(edge_cells))

\* In the first scan of a tab the cells do not depend on the cut into blocks.
FirstScanAsOneBlock == edge_scans = 1 => CellsAsOneBlock

\* C29: for any stream, any cut of it into blocks and any scan, first or
\* later, of the same tab, the cells filled block by block are those filled
\* from the whole stream as one block with the previous level low.
C29_BlockCutAndScanIndependent == CellsAsOneBlock

\* =========================================================================
\* _on_phase_finished runs for a queued finished signal.
PhaseSignalHandled == pp_queue # << >> /\ pp_queue' = Tail(pp_queue)

\* C30: the phase advances, the scope is stopped and an image is stored
\* only for the finished signal of the worker of the current phase of the
\* current scan, and a signal handled in IDLE (after Stop, no new Start)
\* never starts the probe phase.
C30_OnlyOwnSignalAdvances ==
    [][PhaseSignalHandled =>
          /\ (pp_phase' # pp_phase \/ pp_streaming' # pp_streaming
                 \/ pp_pump' # pp_pump \/ pp_probe' # pp_probe)
             => Head(pp_queue) = pp_worker
          /\ pp_phase = PHASE_IDLE => pp_phase' = PHASE_IDLE]_vars

\* The part of it about a Stop with no new Start.
NoProbeAfterStop ==
    [][(PhaseSignalHandled /\ pp_phase = PHASE_IDLE)
          => (pp_phase' = PHASE_IDLE /\ UNCHANGED << pp_streaming, pp_pump,
                                                     pp_probe, pp_nworkers >>)]_vars

====
